---- MODULE Spec2Model ----
(***************************************************************************)
(* sangaku_shaker: metadata entries are staged into the `entry` table      *)
(* (cache.rs / storage.rs), and the table is rendered back as a tree of    *)
(* Markdown documents (sink.rs, main.rs).                                   *)
(*                                                                         *)
(* Strings are sequences of one-character strings, so that split, join,    *)
(* parse, format and the byte order of SQLite's ORDER BY are computed the   *)
(* way the code computes them.  An Option<T> is a sequence of length 0      *)
(* (None) or 1 (Some).  A u32 is its canonical sequence of decimal digits   *)
(* (most significant first), which keeps 2^32 - 1 representable.            *)
(***************************************************************************)
EXTENDS Integers, Sequences, FiniteSets, TLC

\* Number of metadata directories a run reads.
MaxEntries == 4

None == <<>>
Some(x) == <<x>>
IsSome(opt) == Len(opt) = 1
Unwrap(opt) == opt[1]

----------------------------------------------------------------------------
(* Characters and bytes *)

DigitChars == <<"0", "1", "2", "3", "4", "5", "6", "7", "8", "9">>
LowerChars == <<"a", "b", "c", "d", "e", "f", "g", "h", "i", "j", "k", "l", "m",
                "n", "o", "p", "q", "r", "s", "t", "u", "v", "w", "x", "y", "z">>
UpperChars == <<"A", "B", "C", "D", "E", "F", "G", "H", "I", "J", "K", "L", "M",
                "N", "O", "P", "Q", "R", "S", "T", "U", "V", "W", "X", "Y", "Z">>

IsIn(c, table) == \E i \in 1..Len(table) : table[i] = c
IndexIn(c, table) == CHOOSE i \in 1..Len(table) : table[i] = c

IsDigit(c) == IsIn(c, DigitChars)
DigitVal(c) == IndexIn(c, DigitChars) - 1

\* The byte of an ASCII character: what SQLite's BINARY collation compares.
Byte(c) ==
    IF IsDigit(c) THEN 48 + DigitVal(c)
    ELSE IF IsIn(c, UpperChars) THEN 64 + IndexIn(c, UpperChars)
    ELSE IF IsIn(c, LowerChars) THEN 96 + IndexIn(c, LowerChars)
    ELSE CASE c = " " -> 32
           [] c = "!" -> 33
           [] c = "+" -> 43
           [] c = "-" -> 45
           [] c = "." -> 46

\* memcmp order with the shorter string first on a common prefix.
RECURSIVE StrLess(_, _)
StrLess(a, b) ==
    IF b = <<>> THEN FALSE
    ELSE IF a = <<>> THEN TRUE
    ELSE IF Byte(Head(a)) # Byte(Head(b)) THEN Byte(Head(a)) < Byte(Head(b))
    ELSE StrLess(Tail(a), Tail(b))

\* str::split(sep): the pieces between separators; always at least one piece.
RECURSIVE Split(_, _)
Split(s, sep) ==
    IF \A i \in 1..Len(s) : s[i] # sep THEN <<s>>
    ELSE LET k == CHOOSE i \in 1..Len(s) :
                      /\ s[i] = sep
                      /\ \A j \in 1..(i - 1) : s[j] # sep
         IN  <<SubSeq(s, 1, k - 1)>> \o Split(SubSeq(s, k + 1, Len(s)), sep)

\* [&str]::join(sep)
RECURSIVE Join(_, _)
Join(parts, sep) ==
    IF parts = <<>> THEN <<>>
    ELSE IF Len(parts) = 1 THEN parts[1]
    ELSE parts[1] \o <<sep>> \o Join(Tail(parts), sep)

----------------------------------------------------------------------------
(* u32 *)

\* u32::MAX = 4294967295
U32Max == <<4, 2, 9, 4, 9, 6, 7, 2, 9, 5>>
Zero == <<0>>

RECURSIVE StripZeros(_)
StripZeros(d) ==
    IF Len(d) > 1 /\ Head(d) = 0 THEN StripZeros(Tail(d)) ELSE d

RECURSIVE DigitsLess(_, _)
DigitsLess(a, b) ==
    IF a = <<>> THEN FALSE
    ELSE IF Head(a) # Head(b) THEN Head(a) < Head(b)
    ELSE DigitsLess(Tail(a), Tail(b))

\* a < b for canonical digit sequences
NumLess(a, b) ==
    \/ Len(a) < Len(b)
    \/ Len(a) = Len(b) /\ DigitsLess(a, b)

\* d + 1 and d - 1 on decimal digits (no width)
RECURSIVE IncDigits(_)
IncDigits(d) ==
    IF d = <<>> THEN <<1>>
    ELSE IF d[Len(d)] < 9 THEN SubSeq(d, 1, Len(d) - 1) \o <<d[Len(d)] + 1>>
    ELSE IncDigits(SubSeq(d, 1, Len(d) - 1)) \o <<0>>

RECURSIVE DecDigits(_)
DecDigits(d) ==
    IF d[Len(d)] > 0 THEN SubSeq(d, 1, Len(d) - 1) \o <<d[Len(d)] - 1>>
    ELSE DecDigits(SubSeq(d, 1, Len(d) - 1)) \o <<9>>

\* <u32 as FromStr>::from_str: an optional "+", then one or more digits, the
\* value at most u32::MAX.
parse_u32(s) ==
    LET body == IF s # <<>> /\ s[1] = "+" THEN Tail(s) ELSE s
        digits == [i \in 1..Len(body) |-> DigitVal(body[i])]
    IN  IF s = <<>> THEN [ok |-> FALSE, val |-> Zero, err |-> "Empty"]
        ELSE IF body = <<>> \/ \E i \in 1..Len(body) : ~IsDigit(body[i])
             THEN [ok |-> FALSE, val |-> Zero, err |-> "InvalidDigit"]
        ELSE IF NumLess(U32Max, StripZeros(digits))
             THEN [ok |-> FALSE, val |-> Zero, err |-> "PosOverflow"]
        ELSE [ok |-> TRUE, val |-> StripZeros(digits), err |-> ""]

\* <u32 as Display>::fmt
fmt_u32(d) == [i \in 1..Len(d) |-> DigitChars[d[i] + 1]]

\* `x - 1` and `x + 1` on u32.  With overflow checks (the debug profile) an
\* out-of-range result panics; without them (the release profile) it wraps.
sub_one(x, checks) ==
    IF x = Zero
    THEN IF checks THEN [panic |-> TRUE, val |-> Zero]
                   ELSE [panic |-> FALSE, val |-> U32Max]
    ELSE [panic |-> FALSE, val |-> StripZeros(DecDigits(x))]

add_one(x, checks) ==
    IF x = U32Max
    THEN IF checks THEN [panic |-> TRUE, val |-> Zero]
                   ELSE [panic |-> FALSE, val |-> Zero]
    ELSE [panic |-> FALSE, val |-> IncDigits(x)]

----------------------------------------------------------------------------
(* The entry table: cache.rs *)

\* A row of `entry`.  `ancestor` and `content` are not serialized.
Record(ordinal, parent, ancestor, slug, title, difficulty, content) ==
    [ordinal |-> ordinal, parent |-> parent, ancestor |-> ancestor, slug |-> slug,
     title |-> title, difficulty |-> difficulty, content |-> content]

\* INSERT OR REPLACE: what insert_record would do without the primary key.
insert_record_upsert(table, record) ==
    [ok |-> TRUE,
     table |-> {r \in table : r.ordinal # record.ordinal} \cup {record}]

\* INSERT INTO entry: `ordinal text NOT NULL PRIMARY KEY` rejects a second row
\* with the same ordinal and the statement changes nothing.
insert_record(table, record) ==
    IF \E r \in table : r.ordinal = record.ordinal
    THEN [ok |-> FALSE, table |-> table]
    ELSE [ok |-> TRUE, table |-> table \cup {record}]

\* SELECT * FROM entry WHERE ordinal = ?
select_record(table, ordinal) ==
    IF \E r \in table : r.ordinal = ordinal
    THEN Some(CHOOSE r \in table : r.ordinal = ordinal)
    ELSE None

\* ORDER BY ordinal on a text column: ascending byte order of the strings.
RECURSIVE OrderByOrdinal(_)
OrderByOrdinal(rows) ==
    IF rows = {} THEN <<>>
    ELSE LET first == CHOOSE r \in rows :
                          \A q \in rows : q = r \/ ~StrLess(q.ordinal, r.ordinal)
         IN  <<first>> \o OrderByOrdinal(rows \ {first})

\* A children query that derives the parent from the ordinal's own segments
\* instead of reading the parent column.
select_children_by_prefix(table, ordinal) ==
    OrderByOrdinal({r \in table :
        LET trail == Split(r.ordinal, ".")
        IN  /\ Len(trail) > 1
            /\ Join(SubSeq(trail, 1, Len(trail) - 1), ".") = ordinal})

\* SELECT * FROM entry WHERE parent IS ? ORDER BY ordinal
select_children(table, ordinal) ==
    OrderByOrdinal({r \in table : r.parent = Some(ordinal)})

\* SELECT * FROM entry ORDER BY ordinal: the sections query without its
\* WHERE clause.
select_sections_unfiltered(table) ==
    OrderByOrdinal(table)

\* SELECT * FROM entry WHERE parent IS NULL ORDER BY ordinal
select_sections(table) ==
    OrderByOrdinal({r \in table : r.parent = None})

\* select_siblings: the last segment of the ordinal minus and plus one, each
\* formatted behind the joined leading segments and a dot, then looked up.
select_siblings(table, ordinal, checks) ==
    LET trail == Split(ordinal, ".")
        upbound == Len(trail) - 1
        current_index == parse_u32(trail[upbound + 1])
        prev_index == sub_one(current_index.val, checks)
        next_index == add_one(current_index.val, checks)
        lead == Join(SubSeq(trail, 1, upbound), ".")
        prev_ordinal == lead \o <<".">> \o fmt_u32(prev_index.val)
        next_ordinal == lead \o <<".">> \o fmt_u32(next_index.val)
        failed(status) == [status |-> status, prev_ordinal |-> <<>>,
                           next_ordinal |-> <<>>, prev |-> None, next |-> None]
    IN  IF ~current_index.ok THEN failed("err")
        ELSE IF prev_index.panic \/ next_index.panic THEN failed("panic")
        ELSE [status |-> "ok",
              prev_ordinal |-> prev_ordinal, next_ordinal |-> next_ordinal,
              prev |-> select_record(table, prev_ordinal),
              next |-> select_record(table, next_ordinal)]

----------------------------------------------------------------------------
(* Documents: sink.rs *)

\* A document is the sequence of the pieces pushed onto `data`.
Chunk(k, text, a, b) == [k |-> k, text |-> text, a |-> a, b |-> b]

\* serde_yaml of the record (ordinal, parent if Some, slug, title, difficulty
\* if Some; ancestor and content skipped), then the "---" line.
build_metadata(record) ==
    <<Chunk("ordinal", "", record.ordinal, <<>>)>>
    \o (IF IsSome(record.parent)
        THEN <<Chunk("parent", "", Unwrap(record.parent), <<>>)>> ELSE <<>>)
    \o <<Chunk("slug", "", record.slug, <<>>),
         Chunk("title", "", record.title, <<>>)>>
    \o (IF IsSome(record.difficulty)
        THEN <<Chunk("difficulty", "", Unwrap(record.difficulty), <<>>)>> ELSE <<>>)
    \o <<Chunk("line", "---", <<>>, <<>>)>>

\* "- [title](./slug.md)" for every child, behind "## Table of contents".
build_node(record, children) ==
    build_metadata(record)
    \o <<Chunk("h1", "", record.title, <<>>),
         Chunk("content", record.content, <<>>, <<>>),
         Chunk("h2", "## Table of contents", <<>>, <<>>)>>
    \o [i \in 1..Len(children) |->
            Chunk("item", "", children[i].title, children[i].slug)]

\* A leaf whose links name the sibling's ordinal where build_leaf names its
\* slug.
build_leaf_ordinal_links(record, siblings) ==
    LET nav == (IF IsSome(siblings.prev)
                THEN <<Chunk("nav", "Previous", Unwrap(siblings.prev).title,
                             Unwrap(siblings.prev).ordinal)>> ELSE <<>>)
               \o (IF IsSome(siblings.next)
                   THEN <<Chunk("nav", "Next", Unwrap(siblings.next).title,
                                Unwrap(siblings.next).ordinal)>> ELSE <<>>)
    IN  build_metadata(record)
        \o <<Chunk("h1", "", record.title, <<>>),
             Chunk("content", record.content, <<>>, <<>>),
             Chunk("h2", "## Navigation", <<>>, <<>>)>>
        \o nav

\* "- Previous: [title](slug.md)" / "- Next: [title](slug.md)" for the siblings
\* that exist, behind "## Navigation".
build_leaf(record, siblings) ==
    LET nav == (IF IsSome(siblings.prev)
                THEN <<Chunk("nav", "Previous", Unwrap(siblings.prev).title,
                             Unwrap(siblings.prev).slug)>> ELSE <<>>)
               \o (IF IsSome(siblings.next)
                   THEN <<Chunk("nav", "Next", Unwrap(siblings.next).title,
                                Unwrap(siblings.next).slug)>> ELSE <<>>)
    IN  build_metadata(record)
        \o <<Chunk("h1", "", record.title, <<>>),
             Chunk("content", record.content, <<>>, <<>>),
             Chunk("h2", "## Navigation", <<>>, <<>>)>>
        \o nav

\* build_content: a leaf when the children query is empty, else a node.  A
\* failure of select_siblings is the failure of the whole call.
build_content(table, record, checks) ==
    LET children == select_children(table, record.ordinal)
        siblings == select_siblings(table, record.ordinal, checks)
    IN  IF children = <<>>
        THEN IF siblings.status = "ok"
             THEN [status |-> "ok", data |-> build_leaf(record, siblings),
                   children |-> children]
             ELSE [status |-> siblings.status, data |-> <<>>, children |-> <<>>]
        ELSE [status |-> "ok", data |-> build_node(record, children),
              children |-> children]

----------------------------------------------------------------------------
(* The renderer main.rs carries for itself *)

\* main.rs query_children: the same statement as select_children.
query_children(table, ordinal) ==
    OrderByOrdinal({r \in table : r.parent = Some(ordinal)})

\* main.rs build_node
main_build_node(record, children) ==
    build_metadata(record)
    \o <<Chunk("h1", "", record.title, <<>>),
         Chunk("content", record.content, <<>>, <<>>),
         Chunk("h2", "## Table of contents", <<>>, <<>>)>>
    \o [i \in 1..Len(children) |->
            Chunk("item", "", children[i].title, children[i].slug)]

\* main.rs build_leaf: the metadata, the heading and the content, nothing else.
main_build_leaf(record) ==
    build_metadata(record)
    \o <<Chunk("h1", "", record.title, <<>>),
         Chunk("content", record.content, <<>>, <<>>)>>

\* main.rs build_content
main_build_content(table, record) ==
    LET children == query_children(table, record.ordinal)
    IN  IF children = <<>>
        THEN [status |-> "ok", data |-> main_build_leaf(record), children |-> children]
        ELSE [status |-> "ok", data |-> main_build_node(record, children),
              children |-> children]

----------------------------------------------------------------------------
(* Ingestion: source.rs *)

\* The language the run renders.
Lang == "en"

\* excluded_names of main
ExcludedNames == {"assets", "temario.md"}

\* exclude_by_name: TRUE when the name is not one of the excluded names.
exclude_by_name(name, excluded_names) == name \notin excluded_names

to_lowercase(c) ==
    IF IsIn(c, UpperChars) THEN LowerChars[IndexIn(c, UpperChars)] ELSE c

\* slug: lowercase, keep a..z and "-", turn " " into "-", drop the rest.
RECURSIVE slug(_)
slug(input) ==
    IF input = <<>> THEN <<>>
    ELSE LET ch == to_lowercase(Head(input))
         IN  (IF IsIn(ch, LowerChars) \/ ch = "-" THEN <<ch>>
              ELSE IF ch = " " THEN <<"-">>
              ELSE <<>>) \o slug(Tail(input))

\* A source directory: its name, its metadata.json and its theory/<lang>.md.
Entry(name, number, parent, difficulty, data, theory) ==
    [name |-> name, number |-> number, parent |-> parent,
     difficulty |-> difficulty, data |-> data, theory |-> theory]

MetaItem(lang, name, desc) == [lang |-> lang, name |-> name, desc |-> desc]

\* process_entry: the item of the language, else skip; the ancestor parsed
\* from the first segment; the content from desc or from the theory file;
\* then the insert.  Every `?` ends the call with the error.
process_entry(table, entry, lang) ==
    LET found == {i \in 1..Len(entry.data) : entry.data[i].lang = lang}
        item == entry.data[CHOOSE i \in found : \A j \in found : i <= j]
        ordinal == entry.number
        trail == Split(ordinal, ".")
        ancestor == parse_u32(trail[1])
        content == IF IsSome(item.desc) THEN item.desc ELSE entry.theory
        record == Record(ordinal, entry.parent, ancestor.val, slug(item.name),
                         item.name, entry.difficulty, Unwrap(content))
        inserted == insert_record(table, record)
    IN  IF found = {} THEN [status |-> "skip", table |-> table]
        ELSE IF ~ancestor.ok THEN [status |-> "parse", table |-> table]
        ELSE IF ~IsSome(content) THEN [status |-> "io", table |-> table]
        ELSE IF ~inserted.ok THEN [status |-> "insert", table |-> inserted.table]
        ELSE [status |-> "ok", table |-> inserted.table]

----------------------------------------------------------------------------
(* The source directories a run may find *)

o1 == <<"1">>
o2 == <<"2">>
o9 == <<"9">>
o10 == <<"1", "0">>
o1_0 == <<"1", ".", "0">>
o1_1 == <<"1", ".", "1">>
o1_2 == <<"1", ".", "2">>
o1_3 == <<"1", ".", "3">>
o1_4 == <<"1", ".", "4">>
o1_10 == <<"1", ".", "1", "0">>
o1_max == <<"1", ".", "4", "2", "9", "4", "9", "6", "7", "2", "9", "5">>
o1_b == <<"1", ".", "b">>
o1_1_1 == <<"1", ".", "1", ".", "1">>
o2_1 == <<"2", ".", "1">>
ox == <<"x">>

En(name, desc) == <<MetaItem("en", name, desc)>>

SourcePool ==
    { Entry("1", o1, None, None,
            <<MetaItem("ca", <<"I", "n", "t", "r", "o", "d", "u", "c", "c", "i", "o">>, None),
              MetaItem("en", <<"I", "n", "t", "r", "o">>, Some("intro"))>>, None),
      Entry("2", o2, None, None, En(<<"A", "d", "v", "a", "n", "c", "e", "d">>, Some("advanced")), None),
      Entry("10", o10, None, None, En(<<"T", "e", "n">>, Some("ten")), None),
      Entry("1.0", o1_0, Some(o1), None, En(<<"Z">>, Some("z")), None),
      Entry("1.1", o1_1, Some(o1), Some(<<3>>), En(<<"A">>, None), Some("theory a")),
      Entry("1.2", o1_2, Some(o1), None, En(<<"B">>, Some("b")), None),
      Entry("1.3", o1_3, Some(o1), None, En(<<"I", "n", "d", "e", "x">>, Some("i")), None),
      Entry("1.4", o1_4, Some(o1), None,
            <<MetaItem("ca", <<"Q">>, Some("q"))>>, Some("theory q")),
      Entry("1.10", o1_10, Some(o1), None, En(<<"J">>, Some("j")), None),
      Entry("1.4294967295", o1_max, Some(o1), None, En(<<"M">>, Some("m")), None),
      Entry("1.b", o1_b, Some(o1), None, En(<<"B", "a", "d", " ", "i", "d", "!">>, Some("bad")), None),
      Entry("1.1.1", o1_1_1, Some(o1_1), None, En(<<"A">>, Some("a again")), None),
      Entry("1.1-bis", o1_1, Some(o9), None, En(<<"C">>, Some("c")), None),
      Entry("2.1", o2_1, Some(o2), None, En(<<"D">>, None), None),
      Entry("x", ox, None, None, En(<<"X">>, Some("x")), None),
      Entry("assets", o2, None, None, En(<<"A", "s", "s", "e", "t", "s">>, Some("assets")), None) }

----------------------------------------------------------------------------
(* The run: main *)

VARIABLES
    checks,     \* whether the build checks integer overflow (debug) or wraps (release)
    pending,    \* the source directories read_dir has not yet yielded
    db,         \* the rows of the `entry` table
    pc,         \* "ingest", "render", "done" or "failed"
    sections,   \* the section rows main has still to render
    path,       \* the directory of the section being rendered
    stack,      \* the records the pending write_node calls will visit, in order
    dirs,       \* the section directories created under the target
    files,      \* the files under the target: directory, name, record, data
    log,        \* every fs::write so far, in order: directory, name, record
    err         \* the error that ended the run: its kind and the ordinal it is about

vars == <<checks, pending, db, pc, sections, path, stack, dirs, files, log, err>>

NoErr == [kind |-> "", at |-> <<>>]

IndexMd == <<"i", "n", "d", "e", "x", ".", "m", "d">>
DotMd == <<".", "m", "d">>

Init ==
    /\ checks \in BOOLEAN
    /\ pending \in {S \in SUBSET SourcePool : Cardinality(S) <= MaxEntries}
    /\ db = {}
    /\ pc = "ingest"
    /\ sections = <<>>
    /\ path = <<>>
    /\ stack = <<>>
    /\ dirs = {}
    /\ files = {}
    /\ log = <<>>
    /\ err = NoErr

\* fs::write(path.join(name), data): creates the file or replaces its content.
fs_write(fs, dir, name, record, data) ==
    {f \in fs : ~(f.dir = dir /\ f.name = name)}
    \cup {[dir |-> dir, name |-> name, by |-> record.ordinal, data |-> data]}

\* The file a write_node call writes its record to.
node_file_nested(dir, record) ==
    [dir |-> dir \o <<"/">> \o record.slug, name |-> IndexMd]

node_file(dir, record) ==
    [dir |-> dir, name |-> record.slug \o DotMd]

\* A loop over read_dir that reports the error of process_entry and goes on
\* to the next directory, the way it goes on after a skipped one.
ReadEntry_goes_on ==
    /\ pc = "ingest"
    /\ \E entry \in pending :
         LET done == process_entry(db, entry, Lang)
         IN  /\ pending' = pending \ {entry}
             /\ IF ~exclude_by_name(entry.name, ExcludedNames)
                THEN UNCHANGED <<db, err>>
                ELSE IF done.status \in {"ok", "skip"}
                THEN /\ db' = done.table
                     /\ UNCHANGED err
                ELSE /\ db' = done.table
                     /\ err' = [kind |-> done.status, at |-> entry.number]
    /\ UNCHANGED <<checks, pc, sections, path, stack, dirs, files, log>>

\* One turn of the loop over read_dir: an excluded name is passed over, any
\* other directory goes through process_entry, whose error ends the run.
ReadEntry ==
    /\ pc = "ingest"
    /\ \E entry \in pending :
         LET done == process_entry(db, entry, Lang)
         IN  /\ pending' = pending \ {entry}
             /\ IF ~exclude_by_name(entry.name, ExcludedNames)
                THEN UNCHANGED <<db, pc, err>>
                ELSE IF done.status \in {"ok", "skip"}
                THEN /\ db' = done.table
                     /\ UNCHANGED <<pc, err>>
                ELSE /\ db' = done.table
                     /\ pc' = "failed"
                     /\ err' = [kind |-> done.status, at |-> entry.number]
    /\ UNCHANGED <<checks, sections, path, stack, dirs, files, log>>

\* After the last directory: the sections query.
QuerySections ==
    /\ pc = "ingest"
    /\ pending = {}
    /\ sections' = select_sections(db)
    /\ pc' = "render"
    /\ UNCHANGED <<checks, pending, db, path, stack, dirs, files, log, err>>

\* One turn of the loop over the sections: create the section's directory,
\* then write_tree: build the content, write index.md, go on to the children.
RenderSection ==
    /\ pc = "render"
    /\ stack = <<>>
    /\ sections # <<>>
    /\ LET entry == Head(sections)
           section == entry.slug
           built == build_content(db, entry, checks)
       IN  /\ sections' = Tail(sections)
           /\ IF section = <<>> \/ section \in dirs
              THEN /\ pc' = "failed"
                   /\ err' = [kind |-> "create_dir", at |-> entry.ordinal]
                   /\ UNCHANGED <<path, stack, dirs, files, log>>
              ELSE /\ dirs' = dirs \cup {section}
                   /\ path' = section
                   /\ IF built.status # "ok"
                      THEN /\ pc' = "failed"
                           /\ err' = [kind |-> built.status, at |-> entry.ordinal]
                           /\ UNCHANGED <<stack, files, log>>
                      ELSE /\ files' = fs_write(files, section, IndexMd, entry, built.data)
                           /\ log' = Append(log, [dir |-> section, name |-> IndexMd,
                                                  by |-> entry.ordinal])
                           /\ stack' = built.children
                           /\ UNCHANGED <<pc, err>>
    /\ UNCHANGED <<checks, pending, db>>

\* write_node on the next record: build the content, write <slug>.md in the
\* same directory, go on to the children before the remaining records.
WriteNode ==
    /\ pc = "render"
    /\ stack # <<>>
    /\ LET record == Head(stack)
           built == build_content(db, record, checks)
           target == node_file(path, record)
       IN  IF built.status # "ok"
           THEN /\ pc' = "failed"
                /\ err' = [kind |-> built.status, at |-> record.ordinal]
                /\ UNCHANGED <<stack, files, log>>
           ELSE /\ files' = fs_write(files, target.dir, target.name, record, built.data)
                /\ log' = Append(log, [dir |-> target.dir, name |-> target.name,
                                       by |-> record.ordinal])
                /\ stack' = built.children \o Tail(stack)
                /\ UNCHANGED <<pc, err>>
    /\ UNCHANGED <<checks, pending, db, sections, path, dirs>>

\* The loop over the sections is over: main returns Ok.
Return ==
    /\ pc = "render"
    /\ stack = <<>>
    /\ sections = <<>>
    /\ pc' = "done"
    /\ UNCHANGED <<checks, pending, db, sections, path, stack, dirs, files, log, err>>

Next ==
    \/ ReadEntry
    \/ QuerySections
    \/ RenderSection
    \/ WriteNode
    \/ Return

Spec == Init /\ [][Next]_vars

----------------------------------------------------------------------------
(* Vocabulary of the properties *)

Range(seq) == {seq[i] : i \in 1..Len(seq)}

Segments(ordinal) == Split(ordinal, ".")
LastSegment(ordinal) == Segments(ordinal)[Len(Segments(ordinal))]

\* A segment written as a non-negative integer without sign or leading zeros.
IsNumber(seg) ==
    /\ seg # <<>>
    /\ \A i \in 1..Len(seg) : IsDigit(seg[i])
    /\ Len(seg) > 1 => seg[1] # "0"

WellFormed(ordinal) == \A i \in 1..Len(Segments(ordinal)) : IsNumber(Segments(ordinal)[i])

NumberOf(seg) == [i \in 1..Len(seg) |-> DigitVal(seg[i])]

\* The ordinal with its last segment n replaced by n + delta, delta being -1
\* or 1, over the integers: below 0 comes -1, and there is no greatest number.
sibling_of(ordinal, delta) ==
    LET trail == Segments(ordinal)
        n == NumberOf(trail[Len(trail)])
        moved == IF delta = 1 THEN fmt_u32(IncDigits(n))
                 ELSE IF n = Zero THEN <<"-", "1">>
                 ELSE fmt_u32(StripZeros(DecDigits(n)))
    IN  Join(SubSeq(trail, 1, Len(trail) - 1) \o <<moved>>, ".")

\* Ordinals as sequences of integers, compared segment by segment.
RECURSIVE SegmentsLess(_, _)
SegmentsLess(a, b) ==
    IF b = <<>> THEN FALSE
    ELSE IF a = <<>> THEN TRUE
    ELSE IF Head(a) # Head(b) THEN NumLess(NumberOf(Head(a)), NumberOf(Head(b)))
    ELSE SegmentsLess(Tail(a), Tail(b))

Ascending(rows) ==
    \A i, j \in 1..Len(rows) :
        (i < j /\ WellFormed(rows[i].ordinal) /\ WellFormed(rows[j].ordinal))
        => SegmentsLess(Segments(rows[i].ordinal), Segments(rows[j].ordinal))

Headers(data) == {data[i].text : i \in {j \in 1..Len(data) : data[j].k = "h2"}}

NavEntries(data, which) ==
    {data[i] : i \in {j \in 1..Len(data) : data[j].k = "nav" /\ data[j].text = which}}

IsLeaf(record) == select_children(db, record.ordinal) = <<>>

\* Every record reachable from the ordinal through the children query.
RECURSIVE Descendants(_, _)
Descendants(table, ordinal) ==
    LET kids == Range(select_children(table, ordinal))
    IN  kids \cup UNION {Descendants(table, k.ordinal) : k \in kids}

Writes == Range(log)
Visited == {w.by : w \in Writes}

\* A record whose parent column names an ordinal that has no row.
Orphaned(record) ==
    IsSome(record.parent) /\ select_record(db, Unwrap(record.parent)) = None

RenderErrors == {"err", "panic", "create_dir"}

----------------------------------------------------------------------------
(* Properties *)

\* C1: an insert of a record whose ordinal already has a row fails and leaves
\* the table as it was: the same rows, the same count, the row of that ordinal
\* with all its fields.
C1_DuplicateInsertRejected ==
    [][\A entry \in pending :
          LET found == {i \in 1..Len(entry.data) : entry.data[i].lang = Lang}
              item == entry.data[CHOOSE i \in found : \A j \in found : i <= j]
          IN  ( /\ pc = "ingest"
                /\ pending' = pending \ {entry}
                /\ exclude_by_name(entry.name, ExcludedNames)
                /\ found # {}
                /\ parse_u32(Segments(entry.number)[1]).ok
                /\ IsSome(item.desc) \/ IsSome(entry.theory)
                /\ select_record(db, entry.number) # None )
              => ( /\ db' = db
                   /\ Cardinality(db') = Cardinality(db)
                   /\ select_record(db', entry.number) = select_record(db, entry.number)
                   /\ pc' = "failed"
                   /\ err'.kind = "insert" )]_vars

\* C1 witness: a duplicate insert was refused after two rows had been inserted.
C1_Witness ==
    /\ pc = "failed"
    /\ err.kind = "insert"
    /\ Cardinality(db) >= 2
    /\ select_record(db, err.at) # None

\* C2: the document of a record without children has the Navigation header
\* and not the Table of contents header, the document of a record with
\* children the other way round; this for the renderer of sink.rs and for
\* the renderer of main.rs.
C2_ExactlyOneHeader ==
    \A r \in db :
        LET expected == IF IsLeaf(r) THEN {"## Navigation"}
                        ELSE {"## Table of contents"}
            sink == build_content(db, r, checks)
            main == main_build_content(db, r)
        IN  /\ sink.status = "ok" => Headers(sink.data) = expected
            /\ main.status = "ok" => Headers(main.data) = expected

\* C3: the children query and the sections query return their rows in
\* ascending order of the ordinals read as sequences of integers.
C3_NumericOrder ==
    /\ Ascending(select_sections(db))
    /\ \A r \in db : Ascending(select_children(db, r.ordinal))

\* C4: the document written for a leaf p.n has a Previous entry exactly when
\* p.(n-1) has a row and a Next entry exactly when p.(n+1) has a row, each
\* with the title and the slug of that row.
C4_NavigationMatchesSiblings ==
    \A f \in files : \A r \in db :
        ( /\ f.by = r.ordinal
          /\ IsLeaf(r)
          /\ WellFormed(r.ordinal)
          /\ Len(Segments(r.ordinal)) >= 2 )
        => LET before == select_record(db, sibling_of(r.ordinal, -1))
               after == select_record(db, sibling_of(r.ordinal, 1))
               entry(which, row) == Chunk("nav", which, row.title, row.slug)
           IN  /\ NavEntries(f.data, "Previous") =
                    (IF IsSome(before) THEN {entry("Previous", Unwrap(before))} ELSE {})
               /\ NavEntries(f.data, "Next") =
                    (IF IsSome(after) THEN {entry("Next", Unwrap(after))} ELSE {})

\* C5: for a leaf whose last segment is 0 the sibling computation does not
\* fail: the previous ordinal it looks up is p.-1, which has no row, the
\* render does not end in an error at that leaf, and the document written
\* for it has no Previous entry.
C5_ZeroSegmentNeverFails ==
    \A r \in db :
        ( /\ r.ordinal \in Visited \/ (pc = "failed" /\ err.at = r.ordinal)
          /\ IsLeaf(r)
          /\ WellFormed(r.ordinal)
          /\ Len(Segments(r.ordinal)) >= 2
          /\ LastSegment(r.ordinal) = <<"0">> )
        => LET siblings == select_siblings(db, r.ordinal, checks)
           IN  /\ siblings.status = "ok"
               /\ siblings.prev_ordinal = sibling_of(r.ordinal, -1)
               /\ siblings.prev = None
               /\ ~(pc = "failed" /\ err.kind \in RenderErrors /\ err.at = r.ordinal)
               /\ \A f \in files :
                      f.by = r.ordinal => NavEntries(f.data, "Previous") = {}

\* C6: for a single-segment ordinal n the sibling query succeeds and returns
\* the rows of the single-segment ordinals n-1 and n+1 when they exist; seen
\* where the query runs, on a section rendered as a leaf.
C6_SectionSiblings ==
    \A r \in db :
        ( /\ r.ordinal \in Visited \/ (pc = "failed" /\ err.at = r.ordinal)
          /\ IsLeaf(r)
          /\ WellFormed(r.ordinal)
          /\ Len(Segments(r.ordinal)) = 1 )
        => LET siblings == select_siblings(db, r.ordinal, checks)
           IN  /\ siblings.status = "ok"
               /\ siblings.prev = select_record(db, sibling_of(r.ordinal, -1))
               /\ siblings.next = select_record(db, sibling_of(r.ordinal, 1))


\* C7: when the records of one parent have pairwise different slugs, no two
\* different records are written to the same file: no file of a section's
\* directory is written for two records, index.md included.
C7_SiblingSlugsSuffice ==
    (\A r, q \in db : (r.parent = q.parent /\ r.slug = q.slug) => r = q)
    => \A v, w \in Writes : (v.dir = w.dir /\ v.name = w.name) => v.by = w.by

\* The writes write_tree on the section is to make: index.md for the section
\* and <slug>.md for every descendant, all in the section's directory.
TreeWrites(section) ==
    {[dir |-> section.slug, name |-> IndexMd, by |-> section.ordinal]}
    \cup {[dir |-> section.slug, name |-> r.slug \o DotMd, by |-> r.ordinal] :
            r \in Descendants(db, section.ordinal)}

\* write_tree on the section has returned Ok.
TreeDone(section) ==
    /\ section.ordinal \in Visited
    /\ \/ path # section.slug
       \/ stack = <<>> /\ (pc # "failed" \/ err.kind = "create_dir")

\* C8: every write for a record of a section's subtree is index.md for the
\* section and <slug>.md for a descendant, in the section's directory and in
\* no other; and once write_tree on the section has returned Ok, all of them
\* are written, at any depth.
C8_SubtreeInSectionDirectory ==
    \A section \in db :
        section.parent = None
        => LET subtree == {section.ordinal}
                          \cup {r.ordinal : r \in Descendants(db, section.ordinal)}
           IN  /\ {w \in Writes : w.by \in subtree} \subseteq TreeWrites(section)
               /\ {w \in Writes : w.dir = section.slug} \subseteq TreeWrites(section)
               /\ TreeDone(section) => TreeWrites(section) \subseteq Writes

\* C8 witness: the run is over, and a section, a child and a grandchild are
\* written into the section's directory.
C8_Witness ==
    /\ pc = "done"
    /\ \E section \in db :
         /\ section.parent = None
         /\ TreeDone(section)
         /\ \E child \in Range(select_children(db, section.ordinal)) :
              /\ select_children(db, child.ordinal) # <<>>
              /\ Cardinality(TreeWrites(section)) >= 3
              /\ TreeWrites(section) \subseteq Writes

\* C9: for a two-segment ordinal a.b, the next sibling ordinal that the
\* sibling computation forms, put through the computation again, has a.b as
\* its previous sibling ordinal.
C9_NextThenPrevious ==
    \A r \in db :
        (WellFormed(r.ordinal) /\ Len(Segments(r.ordinal)) = 2)
        => LET forth == select_siblings(db, r.ordinal, checks)
               back == select_siblings(db, forth.next_ordinal, checks)
           IN  /\ forth.status = "ok"
               /\ back.status = "ok"
               /\ back.prev_ordinal = r.ordinal

\* C10: a record whose parent has no row is never visited and nothing is
\* written for it, the render raises no error about it, and it stays in the
\* table, returned by the lookup of its ordinal.
C10_OrphanNeverVisited ==
    \A r \in db :
        (pc \in {"render", "done", "failed"} /\ Orphaned(r))
        => /\ r.ordinal \notin Visited
           /\ r \notin Range(stack)
           /\ r \notin Range(sections)
           /\ \A f \in files : f.by # r.ordinal
           /\ ~(err.kind \in RenderErrors /\ err.at = r.ordinal)
           /\ select_record(db, r.ordinal) = Some(r)

\* C10 witness: the run rendered a section to the end with an orphan in the
\* table.
C10_Witness ==
    /\ pc = "done"
    /\ log # <<>>
    /\ \E r \in db : Orphaned(r)


IngestErrors == {"parse", "io", "insert"}

\* C11: the table is written only while the run ingests and never after the
\* sections query; the run never goes back to ingesting; and once a
\* directory has failed to ingest, the sections are not queried, no section
\* directory is created and no file is written.
C11_WriteThenReadOnly ==
    [][ /\ pc # "ingest" => (db' = db /\ pc' # "ingest")
        /\ db' # db => (pc = "ingest" /\ sections = <<>> /\ log = <<>>)
        /\ err'.kind \in IngestErrors
           => (sections' = <<>> /\ dirs' = {} /\ files' = {} /\ log' = <<>>) ]_vars

\* C11 witness: a run that inserted two rows and then rendered to the end.
C11_Witness ==
    /\ pc = "done"
    /\ Cardinality(db) >= 2
    /\ Len(log) >= 2


----------------------------------------------------------------------------
(* Runs over directories whose parent fields disagree with their ordinals *)

o2_5 == <<"2", ".", "5">>
o3_1 == <<"3", ".", "1">>
o3_2 == <<"3", ".", "2">>
o4 == <<"4">>

LoosePool ==
    { Entry("1", o1, None, None, En(<<"I", "n", "t", "r", "o">>, Some("intro")), None),
      Entry("2", o2, None, None, En(<<"A", "d", "v", "a", "n", "c", "e", "d">>, Some("advanced")), None),
      Entry("1.1", o1_1, Some(o1), None, En(<<"A">>, Some("a")), None),
      Entry("1.2", o1_2, Some(o1), None, En(<<"B">>, Some("b")), None),
      \* two segments and no parent
      Entry("1.2-top", o1_2, None, None, En(<<"B">>, Some("b on top")), None),
      Entry("1.1.1", o1_1_1, Some(o1_1), None, En(<<"C">>, Some("c")), None),
      \* the parent is a row, but not the ordinal's prefix
      Entry("2.5", o2_5, Some(o1), None, En(<<"E">>, Some("e")), None),
      \* the parent has no row
      Entry("1.3", o1_3, Some(o9), None, En(<<"F">>, Some("f")), None),
      \* each the parent of the other
      Entry("3.1", o3_1, Some(o3_2), None, En(<<"G">>, Some("g")), None),
      Entry("3.2", o3_2, Some(o3_1), None, En(<<"H">>, Some("h")), None),
      \* its own parent
      Entry("4", o4, Some(o4), None, En(<<"K">>, Some("k")), None) }

InitLoose ==
    /\ checks \in BOOLEAN
    /\ pending \in {S \in SUBSET LoosePool : Cardinality(S) <= MaxEntries}
    /\ db = {}
    /\ pc = "ingest"
    /\ sections = <<>>
    /\ path = <<>>
    /\ stack = <<>>
    /\ dirs = {}
    /\ files = {}
    /\ log = <<>>
    /\ err = NoErr

LooseSpec == InitLoose /\ [][Next]_vars

\* The ordinal without its last segment; None for a single segment.
parent_of(ordinal) ==
    IF Len(Segments(ordinal)) = 1 THEN None
    ELSE Some(Join(SubSeq(Segments(ordinal), 1, Len(Segments(ordinal)) - 1), "."))

\* What is left of the run: the directories to read and the rows they may
\* still add while ingesting, then the sections to start and the rows not
\* yet written; nothing once the run is over.
Rank ==
    CASE pc = "ingest" -> 2 + 3 * Cardinality(pending) + 2 * Cardinality(db)
      [] pc = "render" -> 1 + Len(sections) + Cardinality(db) - Cardinality(Visited)
      [] OTHER -> 0

\* The run is over, or the guard of one of its steps holds: another directory
\* to read or the sections query, another record of the tree to write,
\* another section to render, or the return.
NotStuck ==
    \/ pc \in {"done", "failed"}
    \/ pc = "ingest" /\ (pending # {} \/ pending = {})
    \/ pc = "render" /\ stack # <<>>
    \/ pc = "render" /\ stack = <<>> /\ (sections # <<>> \/ sections = <<>>)

\* C12: whatever the parent fields are, no record is written twice, every
\* step brings the run nearer to its end, and the run does not stop before
\* it is done or has failed.
C12_TerminatesVisitingOnce ==
    /\ NotStuck
    /\ [][ /\ \A i, j \in 1..Len(log') : i # j => log'[i].by # log'[j].by
           /\ Rank' < Rank
           /\ Rank' >= 0
           /\ NotStuck' ]_vars

\* C12 witness: a finished run over a table with two rows that are each
\* other's parent and a visited row whose parent is not its ordinal's prefix.
C12_Witness ==
    /\ pc = "done"
    /\ \E r, q \in db :
         r # q /\ r.parent = Some(q.ordinal) /\ q.parent = Some(r.ordinal)
    /\ \E r \in db :
         r.ordinal \in Visited /\ IsSome(r.parent) /\ r.parent # parent_of(r.ordinal)

\* Every Previous/Next link of every file names a <slug>.md that the run has
\* written into the directory of that file.
LinksResolve ==
    \A f \in files : \A c \in NavEntries(f.data, "Previous") \cup NavEntries(f.data, "Next") :
        \E w \in Writes : w.dir = f.dir /\ w.name = c.b \o DotMd

====
